---- MODULE Spec2Model ----
(***************************************************************************)
(* MuMu12IPC, the emulator IPC driver of                                   *)
(* arknights_mower/utils/device/mumu12ipc/core.py, as a state machine.     *)
(*                                                                         *)
(* One public call of the driver runs from pc = "idle" back to             *)
(* pc = "idle"; in between, pc names the position inside the handler and   *)
(* every step performs at most one interaction with the outside world (a   *)
(* native DLL call, a MuMuManager query, restart_simulator, a call on the  *)
(* owning device), whose outcome is chosen by the environment.             *)
(***************************************************************************)
EXTENDS Integers, Sequences, FiniteSets, TLC

VARIABLES
    _conn,          \* self._conn: session handle, 0 = invalid
    _display_id,    \* self._display_id: display id, negative = invalid
    _is_new_coord,  \* self._is_new_coord: "None" | "True" | "False"
    _buffer,        \* self._buffer: the single reusable frame buffer
    pc,             \* position inside the running handler, "idle" between calls
    call,           \* the public call in progress (or the last one, when idle)
    script,         \* primitive calls the composite operation still has to make
    prim,           \* the input primitive in progress
    attempt,        \* capture_display: loop variable `attempt`
    er_attempt,     \* retry_wrapper: loop variable `attempt`
    last_exc,       \* retry_wrapper: last_exc
    exc,            \* the exception in flight
    ctx,            \* who called connect()/get_display_id(): "ensure" | "reconnect"
    elapsed,        \* get_display_id: time.time() - start_time, in seconds
    io,             \* the outside interaction made by the last step
    trace,          \* native input calls issued by the call in progress
    exit_calls,     \* device.exit() invocations made by the call in progress
    n_capture,      \* nemu_capture_display calls made by the call in progress
    n_capture_bad,  \* ... of which returned a non-zero status
    prim_ok,        \* primitives of the call in progress that completed their native call
    prim_failed,    \* primitives of the call in progress that entered their except handler
    cancelled,      \* a collaborator raised MowerExit during the call in progress
    result,         \* how the last call ended: [kind, val]
    image,          \* the array the call in progress returned (capture_display)
    held,           \* what the caller saw in the frame it still holds
    start,          \* _conn, _display_id, _is_new_coord when the call started
    pf_pc,          \* profession_filter: position, "idle" between calls
    profession,     \* profession_filter: the argument
    retry,          \* profession_filter: retry
    confirm_btn,    \* profession_filter: what self.find() last returned
    color,          \* profession_filter: blue channel self.get_color() last returned
    last_tap,       \* profession_filter: where self.tap() was last called
    pf_exc,         \* profession_filter: the exception object last constructed
    pf_result       \* profession_filter: how the last call ended

vars == << _conn, _display_id, _is_new_coord, _buffer, pc, call, script, prim,
           attempt, er_attempt, last_exc, exc, ctx, elapsed, io, trace,
           exit_calls, n_capture, n_capture_bad, prim_ok, prim_failed,
           cancelled, result, image, held, start,
           pf_pc, profession, retry, confirm_btn, color, last_tap, pf_exc,
           pf_result >>

-----------------------------------------------------------------------------
(* Program constants *)

_W == 1920
_H == 1080
max_retries == 3
attempts == 3
timeout_seconds == 20
poll_sleep == 1
BackKeycode == 1

ThresholdVersion == << 4, 1, 21 >>

(* Bounds of the model *)

MaxHandle == 1          \* nemu_connect returns 0 or a handle in 1..MaxHandle
NumFrames == 2          \* distinct frame contents the emulator can render
RowSamples == 1         \* pixel rows tracked from the top and from the bottom
ColSamples == 1         \* pixel columns tracked
MaxPoints == 3          \* longest points list given to swipe_ext
MaxSlowPoll == 19       \* longest time one nemu_get_display_id call may take

-----------------------------------------------------------------------------
(* Exceptions.  MuMuIpcError derives from RuntimeError (line 75); MowerExit *)
(* is defined in utils/csleep.py.                                           *)

MowerExitIsException == TRUE

IsMowerExit(e) == e = "MowerExit"

IsRuntimeError(e) == e \in { "RuntimeError", "MuMuIpcError" }

IsException(e) == IF IsMowerExit(e) THEN MowerExitIsException ELSE e # "None"

\* what a collaborator (restart_simulator, device.check_current_focus,
\* device.exit) can do: return, raise an error, raise MowerExit
CollabOutcomes == { "ok", "error", "cancel" }

CollabExc(o) == IF o = "cancel" THEN "MowerExit" ELSE "CollabError"

-----------------------------------------------------------------------------
(* Management queries: MuMuManager.exe <subcmd> -v <index> -a *)

Absent == "absent"

InfoDicts ==
    { [ is_android_started |-> "true",  player_state |-> "start_finished", is_process_started |-> "true"  ],
      [ is_android_started |-> Absent,  player_state |-> "start_finished", is_process_started |-> "true"  ],
      [ is_android_started |-> "false", player_state |-> "starting",       is_process_started |-> "true"  ],
      [ is_android_started |-> "false", player_state |-> Absent,           is_process_started |-> "false" ] }

EmptyInfo == [ is_android_started |-> Absent, player_state |-> Absent, is_process_started |-> Absent ]

Truthy(v) == v \notin { Absent, "false" }

\* outcome of one subprocess.run + json.loads
QueryOutcomes == { "ok", "empty", "nonzero_exit", "spawn_fail", "bad_json" }

QueryRaises(q) ==
    CASE q = "nonzero_exit" -> "CalledProcessError"
      [] q = "spawn_fail"   -> "FileNotFoundError"
      [] q = "bad_json"     -> "JSONDecodeError"
      [] OTHER              -> "None"

_emu_state(info) ==
    IF Truthy(info.is_android_started) \/ info.player_state = "start_finished"
    THEN "running"
    ELSE IF Truthy(info.is_process_started) THEN "launching" ELSE "stopped"

\* a slip that lets a launching emulator through
ConnectAllowed_m(state) == state # "stopped"

\* line 299
ConnectAllowed(state) == state = "running"

\* core_version strings, already split on "." ; a component that is not a
\* number is written NotANumber
NotANumber == 0 - 1

Versions == { << 4, 1, 21 >>, << 4, 1, 20 >>, << 3, 8, 5, 9 >>, << 5 >>,
              << 4, 1 >>, << 4, 2, 0 >>, << 4, NotANumber, 3 >> }

DefaultVersion == << 0, 0, 0 >>

FirstThree(v) == IF Len(v) > 3 THEN SubSeq(v, 1, 3) ELSE v

RECURSIVE TupleGE(_, _)
\* Python's a >= b on tuples of ints
TupleGE(a, b) ==
    IF b = << >> THEN TRUE
    ELSE IF a = << >> THEN FALSE
    ELSE IF Head(a) # Head(b) THEN Head(a) > Head(b)
    ELSE TupleGE(Tail(a), Tail(b))

VersionParses(v) == \A i \in 1..Len(FirstThree(v)) : v[i] # NotANumber

\* a slip that compares the major version only
IsNewCoord_m(parts) == IF parts[1] >= ThresholdVersion[1] THEN "True" ELSE "False"

\* line 275
IsNewCoord(parts) == IF TupleGE(parts, ThresholdVersion) THEN "True" ELSE "False"

\* a slip that drops the `is None` test
ResolveFlag_m(flag, parts) == IsNewCoord(parts)

\* lines 273-275: the flag is assigned only while it is None
ResolveFlag(flag, parts) == IF flag = "None" THEN IsNewCoord(parts) ELSE flag

\* a slip that mirrors the wrong axis
_map_xy_m(flag, x, y) == IF flag = "True" THEN << x, y >> ELSE << _H - x, y >>

\* lines 422-424
_map_xy(flag, x, y) == IF flag = "True" THEN << x, y >> ELSE << _H - y, x >>

-----------------------------------------------------------------------------
(* Frames.  The native buffer holds _H rows of _W RGBA pixels, bottom row   *)
(* first; the model tracks the bytes of a sample of pixels that is closed   *)
(* under the vertical flip.                                                 *)

SampleRows == (0..(RowSamples - 1)) \cup { _H - 1 - r : r \in 0..(RowSamples - 1) }

SampleCols == 0..(ColSamples - 1)

Offset(r, c, k) == (r * _W + c) * 4 + k

SampleOffsets == { Offset(r, c, k) : r \in SampleRows, c \in SampleCols, k \in 0..3 }

SamplePixels == SampleRows \X SampleCols \X (0..2)

\* the bytes nemu_capture_display writes when the emulator shows frame f
NativeBytes(f) == [ o \in SampleOffsets |-> (f * 64 + (o % 61)) % 256 ]

ZeroBytes == [ o \in SampleOffsets |-> 0 ]

\* self._buffer: alloc is `is not None`, made counts the buffers the driver
\* has allocated so far
NoBuffer == [ alloc |-> FALSE, bytes |-> ZeroBytes, made |-> 0 ]

\* a slip that allocates a buffer for every capture
_ensure_buffer_m(buf) == [ alloc |-> TRUE, bytes |-> ZeroBytes, made |-> buf.made + 1 ]

\* lines 346-347: (ctypes.c_ubyte * self._BYTES)() is zero-initialised
_ensure_buffer(buf) ==
    IF buf.alloc THEN buf
    ELSE [ alloc |-> TRUE, bytes |-> ZeroBytes, made |-> buf.made + 1 ]

\* a slip that leaves the rows bottom-up
FrameView_m(bytes) ==
    [ shape |-> << _H, _W, 3 >>,
      pix   |-> [ p \in SamplePixels |-> bytes[Offset(p[1], p[2], p[3])] ] ]

\* lines 375-378: reshape to (H, W, 4), keep channels 0..2, flip the rows.
\* The result is a view: it reads the buffer whenever it is looked at.
FrameView(bytes) ==
    [ shape |-> << _H, _W, 3 >>,
      pix   |-> [ p \in SamplePixels |-> bytes[Offset(_H - 1 - p[1], p[2], p[3])] ] ]

\* line 414: np.zeros((H, W, 3)), a fresh array
BlankImage == [ shape |-> << _H, _W, 3 >>, pix |-> [ p \in SamplePixels |-> 0 ] ]

NoImage == [ shape |-> << 0, 0, 0 >>, pix |-> [ p \in SamplePixels |-> 0 ] ]

-----------------------------------------------------------------------------
(* Composite input operations as the sequence of primitive calls they make *)

Item(op, x, y, finger, code, e) ==
    [ op |-> op, x |-> x, y |-> y, finger |-> finger, code |-> code, exc |-> e ]

NoItem == Item("none", 0, 0, 0, 0, "None")

TouchDown(x, y) == Item("touch_down", x, y, 0, 0, "None")

TouchUp == Item("touch_up", 0, 0, 0, 0, "None")

KeyDown(code) == Item("key_down", 0, 0, 0, code, "None")

KeyUp(code) == Item("key_up", 0, 0, 0, code, "None")

FingerTouchDown(finger, x, y) == Item("finger_touch_down", x, y, finger, 0, "None")

FingerTouchUp(finger) == Item("finger_touch_up", 0, 0, finger, 0, "None")

RaiseItem(e) == Item("raise", 0, 0, 0, 0, e)

NeedsMapping(p) == p.op \in { "touch_down", "finger_touch_down" }

\* lines 510-513
TapScript(x, y) == << TouchDown(x, y), TouchUp >>

\* a slip that forgets to release the key
SendKeyeventScript_m(code) == << KeyDown(code) >>

\* lines 515-518
SendKeyeventScript(code) == << KeyDown(code), KeyUp(code) >>

\* int(): truncation towards zero of n / d, d > 0
Trunc(n, d) == IF n >= 0 THEN n \div d ELSE 0 - ((0 - n) \div d)

\* a slip that starts the interpolation at fraction 0
Interp_m(a, b, i, steps) == Trunc(a * steps + (b - a) * (i - 1), steps)

\* lines 542-543: int(a + (b - a) * (i / steps))
Interp(a, b, i, steps) == Trunc(a * steps + (b - a) * i, steps)

\* lines 535-550
SwipeScript(x0, y0, x1, y1, steps, fall, lift) ==
    (IF fall THEN << TouchDown(x0, y0) >> ELSE << >>)
    \o (IF steps = 0
        THEN << RaiseItem("ZeroDivisionError") >>
        ELSE [ i \in 1..steps |->
                 TouchDown(Interp(x0, x1, i, steps), Interp(y0, y1, i, steps)) ]
             \o (IF lift THEN << TouchUp >> ELSE << >>))

DefaultSteps == 30

\* the parameters swipe declares (lines 523-534) and the keywords swipe_ext
\* passes to it (lines 566-577)
SwipeParameters == { "x0", "y0", "x1", "y1", "duration", "steps", "fall", "lift", "interval" }

SwipeExtKeywords == { "duration", "fall", "lift", "update", "interval", "func" }

\* a slip that forgets the durations
SwipeExtArgsValid_m(points, durations) == ~ (Len(points) < 2)

\* line 560
SwipeExtArgsValid(points, durations) ==
    ~ (Len(points) < 2 \/ Len(durations) # Len(points) - 1)

RECURSIVE SwipeExtSegments(_, _, _)
\* lines 565-577, segment i (0-based) onwards
SwipeExtSegments(points, durations, i) ==
    IF i >= Len(durations) THEN << >>
    ELSE IF ~ (SwipeExtKeywords \subseteq SwipeParameters)
    THEN << RaiseItem("TypeError") >>
    ELSE SwipeScript(points[i + 1][1], points[i + 1][2],
                     points[i + 2][1], points[i + 2][2],
                     DefaultSteps, i = 0, i = Len(durations) - 1)
         \o SwipeExtSegments(points, durations, i + 1)

SwipeExtScript(points, durations) ==
    IF SwipeExtArgsValid(points, durations)
    THEN SwipeExtSegments(points, durations, 0)
    ELSE << RaiseItem("ValueError") >>

-----------------------------------------------------------------------------
(* Inputs of the public calls and outcomes of the outside world *)

TapPoints == { << 100, 200 >> }

SwipeEnds == { << 100, 200, 301, 401 >> }

\* for these step counts i / steps is exact in binary floating point
StepChoices == { 0, 1, 2 }

\* <<steps, fall, lift>>: every combination for the short gestures, the
\* default fall=True, lift=True for the longest
SwipeOptions ==
    { o \in StepChoices \X BOOLEAN \X BOOLEAN :
        (\E n \in StepChoices : n > o[1]) \/ (o[2] /\ o[3]) }

KeyCodes == { BackKeycode, 27 }

Fingers == { 0 }

Durations == { 500 }

NativeStatuses == { 0, 1 }

DisplayResults == { 0 - 2, 0 }

\* seconds one nemu_get_display_id call can take
PollDurations == { 4, MaxSlowPoll }

Handles == 0..MaxHandle

RECURSIVE SeqsUpTo(_, _)
SeqsUpTo(S, n) ==
    IF n = 0 THEN { << >> }
    ELSE LET shorter == SeqsUpTo(S, n - 1)
         IN  shorter \cup { Append(q, x) : q \in shorter, x \in S }

\* the points lists given to swipe_ext: the first n points of a route that
\* goes back and forth between the two points
Route == [ i \in 1..MaxPoints |-> IF i % 2 = 1 THEN << 100, 200 >> ELSE << 300, 400 >> ]

PointLists == { SubSeq(Route, 1, n) : n \in 0..MaxPoints }

DurationLists == SeqsUpTo(Durations, MaxPoints)

-----------------------------------------------------------------------------
(* Records *)

Call(name, pts, durs, steps, fall, lift, code, finger) ==
    [ name |-> name, pts |-> pts, durs |-> durs, steps |-> steps,
      fall |-> fall, lift |-> lift, code |-> code, finger |-> finger ]

NoCall == Call("none", << >>, << >>, 0, FALSE, FALSE, 0, 0)

IO(kind, name, rc, out, info) ==
    [ kind |-> kind, name |-> name, rc |-> rc, out |-> out, info |-> info,
      version |-> << >> ]

NoIO == IO("none", "none", 0, "none", EmptyInfo)

Native(name, rc) == IO("native", name, rc, "none", EmptyInfo)

Manager(subcmd, q, info) == IO("manager", subcmd, 0, q, info)

\* the "setting" query: version is the core_version _emu_version goes on with
Setting(q, version) == [ Manager("setting", q, EmptyInfo) EXCEPT !.version = version ]

Collab(name, o) == IO("collab", name, 0, o, EmptyInfo)

Result(kind, val) == [ kind |-> kind, val |-> val ]

NoResult == Result("none", "None")

NativeCall(fn, args, rc) ==
    [ fn |-> fn, conn |-> _conn, disp |-> _display_id, args |-> args, rc |-> rc ]

Min(a, b) == IF a < b THEN a ELSE b

-----------------------------------------------------------------------------
(* Control *)

\* what BaseMixin.profession_filter works on; no step of the driver touches it
solver == << pf_pc, profession, retry, confirm_btn, color, last_tap, pf_exc, pf_result >>

Ctl(p, s, pr, at, era, le, e, cx, el) ==
    /\ UNCHANGED solver
    /\ pc' = p
    /\ script' = s
    /\ prim' = pr
    /\ attempt' = at
    /\ er_attempt' = era
    /\ last_exc' = le
    /\ exc' = e
    /\ ctx' = cx
    /\ elapsed' = el

Goto(p) == Ctl(p, script, prim, attempt, er_attempt, last_exc, "None", ctx, 0)

\* the public call returns or raises
Finish(kind, val) ==
    /\ Ctl("idle", << >>, NoItem, 0, 0, "None", "None", "none", 0)
    /\ result' = Result(kind, val)

\* where control goes when _ensure_ready returns normally
AfterEnsurePc ==
    IF call.name = "capture_display" THEN "cap_native"
    ELSE IF NeedsMapping(prim) /\ _is_new_coord = "None" THEN "prim_version"
    ELSE "prim_native"

\* the except clauses around the _ensure_ready call
CallerExceptPc == IF call.name = "capture_display" THEN "cap_except" ELSE "prim_except"

\* connect() or get_display_id() raises e
RaiseInSession(e) ==
    IF ctx = "ensure"
    THEN Ctl("er_except", script, prim, attempt, er_attempt, last_exc, e, "none", 0)
    ELSE \* lines 393-394: the best-effort reconnect swallows it
         Ctl("cap_backoff", script, prim, attempt, er_attempt, last_exc, "None", "none", 0)

\* get_display_id() returns
SessionReady ==
    IF ctx = "ensure"
    THEN Ctl(AfterEnsurePc, script, prim, attempt, 0, "None", "None", "none", 0)
    ELSE Ctl("cap_backoff", script, prim, attempt, er_attempt, last_exc, "None", "none", 0)

\* a slip that runs the loop once more
NextCaptureAttempt_m ==
    IF attempt <= attempts
    THEN Ctl("er_try", << >>, NoItem, attempt + 1, 1, "None", "None", "none", 0)
    ELSE Ctl("cap_exit", << >>, NoItem, attempt, 0, "None", "None", "none", 0)

\* line 357: the next iteration of capture_display's loop, or lines 408-411
NextCaptureAttempt ==
    IF attempt < attempts
    THEN Ctl("er_try", << >>, NoItem, attempt + 1, 1, "None", "None", "none", 0)
    ELSE Ctl("cap_exit", << >>, NoItem, attempt, 0, "None", "None", "none", 0)

counters == << trace, exit_calls, n_capture, n_capture_bad, prim_ok, prim_failed, cancelled >>

session == << _conn, _display_id >>

frames == << _buffer, image, held >>

StartCall(c) ==
    /\ pc = "idle"
    /\ call' = c
    /\ start' = << _conn, _display_id, _is_new_coord >>
    /\ io' = NoIO
    /\ trace' = << >>
    /\ exit_calls' = 0
    /\ n_capture' = 0
    /\ n_capture_bad' = 0
    /\ prim_ok' = 0
    /\ prim_failed' = 0
    /\ cancelled' = FALSE
    /\ image' = NoImage
    /\ UNCHANGED << session, _is_new_coord, _buffer, held >>

StartScript(c, s) ==
    /\ StartCall(c)
    /\ Ctl("dispatch", s, NoItem, 0, 0, "None", "None", "none", 0)
    /\ result' = NoResult

-----------------------------------------------------------------------------
(* State after MuMu12IPC.__init__ (lines 96-121) *)

Init ==
    /\ _conn = 0
    /\ _display_id = 0 - 1
    /\ _is_new_coord = "None"
    /\ _buffer = NoBuffer
    /\ pc = "idle"
    /\ call = NoCall
    /\ script = << >>
    /\ prim = NoItem
    /\ attempt = 0
    /\ er_attempt = 0
    /\ last_exc = "None"
    /\ exc = "None"
    /\ ctx = "none"
    /\ elapsed = 0
    /\ io = NoIO
    /\ trace = << >>
    /\ exit_calls = 0
    /\ n_capture = 0
    /\ n_capture_bad = 0
    /\ prim_ok = 0
    /\ prim_failed = 0
    /\ cancelled = FALSE
    /\ result = NoResult
    /\ image = NoImage
    /\ held = NoImage
    /\ start = << 0, 0 - 1, "None" >>
    /\ pf_pc = "idle"
    /\ profession = "None"
    /\ retry = 0
    /\ confirm_btn = << >>
    /\ color = 0
    /\ last_tap = << >>
    /\ pf_exc = "None"
    /\ pf_result = NoResult

-----------------------------------------------------------------------------
(* The public calls *)

\* capture_display(), line 349
CallCapture ==
    /\ StartCall(Call("capture_display", << >>, << >>, 0, FALSE, FALSE, 0, 0))
    /\ Ctl("er_try", << >>, NoItem, 1, 1, "None", "None", "none", 0)
    /\ result' = NoResult

\* touch_down, touch_up, key_down, key_up, finger_touch_down, finger_touch_up
CallPrimitive ==
    \E item \in { TouchDown(p[1], p[2]) : p \in TapPoints } \cup { TouchUp }
                \cup { KeyDown(k) : k \in KeyCodes } \cup { KeyUp(k) : k \in KeyCodes }
                \cup { FingerTouchDown(f, p[1], p[2]) : f \in Fingers, p \in TapPoints }
                \cup { FingerTouchUp(f) : f \in Fingers } :
        StartScript(Call(item.op, << << item.x, item.y >> >>, << >>, 0, FALSE, FALSE,
                         item.code, item.finger),
                    << item >>)

\* tap(x, y), lines 510-513
CallTap ==
    \E p \in TapPoints :
        StartScript(Call("tap", << p >>, << >>, 0, FALSE, FALSE, 0, 0),
                    TapScript(p[1], p[2]))

\* send_keyevent(key_code), lines 515-518
CallSendKeyevent ==
    \E k \in KeyCodes :
        StartScript(Call("send_keyevent", << >>, << >>, 0, FALSE, FALSE, k, 0),
                    SendKeyeventScript(k))

\* back(), lines 520-521
CallBack ==
    StartScript(Call("back", << >>, << >>, 0, FALSE, FALSE, BackKeycode, 0),
                SendKeyeventScript(BackKeycode))

\* swipe(x0, y0, x1, y1, steps=, fall=, lift=), lines 523-550
CallSwipe ==
    \E e \in SwipeEnds, o \in SwipeOptions :
        StartScript(Call("swipe", << << e[1], e[2] >>, << e[3], e[4] >> >>, << >>,
                         o[1], o[2], o[3], 0, 0),
                    SwipeScript(e[1], e[2], e[3], e[4], o[1], o[2], o[3]))

\* swipe_ext(points, durations), lines 552-577
CallSwipeExt ==
    \E points \in PointLists, durations \in DurationLists :
        /\ StartCall(Call("swipe_ext", points, durations, DefaultSteps, TRUE, TRUE, 0, 0))
        /\ IF SwipeExtArgsValid(points, durations)
           THEN /\ Ctl("dispatch", SwipeExtScript(points, durations), NoItem,
                       0, 0, "None", "None", "none", 0)
                /\ result' = NoResult
           ELSE Finish("raise", "ValueError")

\* _emu_version(), line 266
CallEmuVersion ==
    /\ StartCall(Call("_emu_version", << >>, << >>, 0, FALSE, FALSE, 0, 0))
    /\ Ctl("emu_version", << >>, NoItem, 0, 0, "None", "None", "none", 0)
    /\ result' = NoResult

\* the methods the class defines (the `def` lines 96-552)
MethodsDefined ==
    { "__init__", "_load_renderer", "_manager_json", "_emu_version", "_emu_state",
      "connect", "get_display_id", "_ensure_ready", "_ensure_buffer",
      "capture_display", "_map_xy", "key_down", "key_up", "touch_down", "touch_up",
      "finger_touch_down", "finger_touch_up", "tap", "send_keyevent", "back",
      "swipe", "swipe_ext" }

\* a call of a method the class does not define: the attribute lookup raises
CallUndefined(name) ==
    /\ name \notin MethodsDefined
    /\ StartCall(Call(name, << >>, << >>, 0, FALSE, FALSE, 0, 0))
    /\ Finish("raise", "AttributeError")

\* kill_server(), named by the class docstring (line 89)
CallKillServer == CallUndefined("kill_server")

\* reset_when_exit(), named by the class docstring (line 89)
CallResetWhenExit == CallUndefined("reset_when_exit")

\* the caller drops the frame it was holding
ReleaseFrame ==
    /\ pc = "idle"
    /\ held # NoImage
    /\ held' = NoImage
    /\ UNCHANGED << _conn, _display_id, _is_new_coord, _buffer, pc, call, script, prim,
                    attempt, er_attempt, last_exc, exc, ctx, elapsed, io, counters,
                    result, image, start, solver >>

\* the body of a composite operation reaches its next statement
Dispatch ==
    /\ pc = "dispatch"
    /\ io' = NoIO
    /\ IF script = << >>
       THEN Finish("return", "None")
       ELSE IF Head(script).op = "raise"
       THEN Finish("raise", Head(script).exc)
       ELSE /\ Ctl("er_try", Tail(script), Head(script), 0, 1, "None", "None", "none", 0)
            /\ UNCHANGED result
    /\ UNCHANGED << session, _is_new_coord, frames, call, start, counters >>

-----------------------------------------------------------------------------
(* _ensure_ready under retry_wrapper(3), connect, get_display_id *)

\* a slip that takes the reset value -1 for a display
NeedsDisplay_m(disp) == disp < 0 - 1

\* line 342: if self._display_id < 0
NeedsDisplay(disp) == disp < 0

\* lines 33-35 and 340-343: one attempt of the wrapped function starts
EnsureTry ==
    /\ pc = "er_try"
    /\ io' = NoIO
    /\ IF _conn = 0
       THEN Ctl("connect", script, prim, attempt, er_attempt, last_exc, "None", "ensure", 0)
       ELSE IF NeedsDisplay(_display_id)
       THEN Ctl("poll", script, prim, attempt, er_attempt, last_exc, "None", "ensure", 0)
       ELSE Ctl(AfterEnsurePc, script, prim, attempt, 0, "None", "None", "none", 0)
    /\ UNCHANGED << session, _is_new_coord, frames, call, start, counters, result >>

\* connect(), lines 299-300: the "info" query and the running check
Connect ==
    /\ pc = "connect"
    /\ \E q \in QueryOutcomes, d \in InfoDicts :
        LET info == IF q = "ok" THEN d ELSE EmptyInfo
        IN  /\ io' = Manager("info", q, info)
            /\ IF QueryRaises(q) # "None"
               THEN RaiseInSession(QueryRaises(q))
               ELSE IF ConnectAllowed(_emu_state(info))
               THEN Goto("nemu_connect")
               ELSE RaiseInSession("Exception")
    /\ UNCHANGED << session, _is_new_coord, frames, call, start, counters, result >>

\* a slip that forgets to test the handle
ConnectRefused_m(h) == FALSE

\* line 303
ConnectRefused(h) == h = 0

\* connect(), lines 301-305: the native connect call
NemuConnect ==
    /\ pc = "nemu_connect"
    /\ \E h \in Handles :
        /\ _conn' = h
        /\ io' = Native("nemu_connect", h)
        /\ IF ConnectRefused(h)
           THEN RaiseInSession("Exception")
           ELSE IF ctx = "ensure" /\ ~ NeedsDisplay(_display_id)
           THEN SessionReady
           ELSE Goto("poll")
    /\ UNCHANGED << _display_id, _is_new_coord, frames, call, start, counters, result >>

\* a slip that polls once more when the budget is exactly spent
PollAllowed_m(el) == el <= timeout_seconds

\* line 318: time.time() - start_time < timeout_seconds
PollAllowed(el) == el < timeout_seconds

\* a slip that reads a clock which wraps around instead of a monotonic one
ClockAfterPoll_m(el, d) == (el + d + poll_sleep) % timeout_seconds

\* lines 314-329: time.time() - start_time after a native call of d seconds
\* and the sleep, as far as the loop test of line 318 tells it apart
ClockAfterPoll(el, d) == Min(timeout_seconds, el + d + poll_sleep)

\* get_display_id(), lines 318-329: one iteration of the polling loop
Poll ==
    /\ pc = "poll"
    /\ PollAllowed(elapsed)
    /\ \E r \in DisplayResults, d \in PollDurations :
        /\ _display_id' = r
        /\ io' = Native("nemu_get_display_id", r)
        /\ IF r >= 0
           THEN SessionReady
           ELSE Ctl("poll", script, prim, attempt, er_attempt, last_exc, "None", ctx,
                    ClockAfterPoll(elapsed, d))
    /\ UNCHANGED << _conn, _is_new_coord, frames, call, start, counters, result >>

\* get_display_id(), lines 331-333: the budget is spent
PollTimeout ==
    /\ pc = "poll"
    /\ ~ PollAllowed(elapsed)
    /\ io' = NoIO
    /\ RaiseInSession("RuntimeError")
    /\ UNCHANGED << session, _is_new_coord, frames, call, start, counters, result >>

\* a slip that lets the loop run once more
AfterEnsureExcept_m(e) ==
    IF er_attempt <= max_retries
    THEN Ctl("er_try", script, prim, attempt, er_attempt + 1, e, "None", "none", 0)
    ELSE Ctl(CallerExceptPc, script, prim, attempt, 0, "None", e, "none", 0)

\* lines 65-68: the sleep, then the next attempt or `raise last_exc`
AfterEnsureExcept(e) ==
    IF er_attempt < max_retries
    THEN Ctl("er_try", script, prim, attempt, er_attempt + 1, e, "None", "none", 0)
    ELSE Ctl(CallerExceptPc, script, prim, attempt, 0, "None", e, "none", 0)

\* an exception a collaborator raised inside a try block of the wrapper is
\* caught by `except Exception as inner` (lines 49, 63) if it is an Exception
EscapesWrapper(o) == o # "ok" /\ ~ IsException(CollabExc(o))

\* retry_wrapper, lines 36-65: the except clauses
EnsureExcept ==
    /\ pc = "er_except"
    /\ IF IsMowerExit(exc)
       THEN \* lines 36-37
            /\ Ctl(CallerExceptPc, script, prim, attempt, 0, "None", exc, "none", 0)
            /\ io' = NoIO
            /\ UNCHANGED << session, cancelled >>
       ELSE \E o \in CollabOutcomes :
            /\ cancelled' = (cancelled \/ o = "cancel")
            /\ IF IsRuntimeError(exc)
               THEN \* lines 38-50
                    /\ io' = Collab("check_current_focus", o)
                    /\ UNCHANGED session
               ELSE \* lines 51-64
                    /\ io' = Collab("restart_simulator", o)
                    /\ _conn' = 0
                    /\ _display_id' = 0 - 1
            /\ IF EscapesWrapper(o)
               THEN Ctl(CallerExceptPc, script, prim, attempt, 0, "None", CollabExc(o), "none", 0)
               ELSE AfterEnsureExcept(exc)
    /\ UNCHANGED << _is_new_coord, frames, call, start, trace, exit_calls, n_capture,
                    n_capture_bad, prim_ok, prim_failed, result >>

-----------------------------------------------------------------------------
(* The input primitives, lines 426-508 *)

\* _map_xy, lines 420-421, and _emu_version, lines 270-276
PrimVersion ==
    /\ pc = "prim_version"
    /\ \E q \in QueryOutcomes, v \in Versions :
        LET version == IF q = "ok" THEN v ELSE DefaultVersion
            parts   == FirstThree(version)
        IN  /\ io' = Setting(q, version)
            /\ IF QueryRaises(q) # "None"
               THEN /\ Ctl("prim_except", script, prim, attempt, 0, "None",
                           QueryRaises(q), "none", 0)
                    /\ UNCHANGED _is_new_coord
               ELSE IF ~ VersionParses(version)
               THEN /\ Ctl("prim_except", script, prim, attempt, 0, "None",
                           "ValueError", "none", 0)
                    /\ UNCHANGED _is_new_coord
               ELSE /\ _is_new_coord' = ResolveFlag(_is_new_coord, parts)
                    /\ Goto("prim_native")
    /\ UNCHANGED << session, frames, call, start, counters, result >>

\* _emu_version() called by the owner for its own decisions (lines 266-276):
\* nothing around it catches what the query or int() raises
EmuVersion ==
    /\ pc = "emu_version"
    /\ \E q \in QueryOutcomes, v \in Versions :
        LET version == IF q = "ok" THEN v ELSE DefaultVersion
            parts   == FirstThree(version)
        IN  /\ io' = Setting(q, version)
            /\ IF QueryRaises(q) # "None"
               THEN /\ Finish("raise", QueryRaises(q))
                    /\ UNCHANGED _is_new_coord
               ELSE IF ~ VersionParses(version)
               THEN /\ Finish("raise", "ValueError")
                    /\ UNCHANGED _is_new_coord
               ELSE /\ _is_new_coord' = ResolveFlag(_is_new_coord, parts)
                    /\ Finish("return", "parts")
    /\ UNCHANGED << session, frames, call, start, counters >>

NativeName(p) == p.op

\* the arguments after (conn, display_id)
NativeArgs(p) ==
    CASE p.op = "touch_down"        -> _map_xy(_is_new_coord, p.x, p.y)
      [] p.op = "touch_up"          -> << >>
      [] p.op = "finger_touch_down" -> << p.finger >> \o _map_xy(_is_new_coord, p.x, p.y)
      [] p.op = "finger_touch_up"   -> << p.finger >>
      [] p.op = "key_down"          -> << p.code >>
      [] p.op = "key_up"            -> << p.code >>

NativeOk(rc) == rc = 0

\* the nemu_input_event_* call and the status check
PrimNative ==
    /\ pc = "prim_native"
    /\ \E rc \in NativeStatuses :
        /\ io' = Native(NativeName(prim), rc)
        /\ trace' = Append(trace, NativeCall(NativeName(prim), NativeArgs(prim), rc))
        /\ IF NativeOk(rc)
           THEN /\ Goto("dispatch")
                /\ prim_ok' = prim_ok + 1
           ELSE /\ Ctl("prim_except", script, prim, attempt, 0, "None",
                       "MuMuIpcError", "none", 0)
                /\ UNCHANGED prim_ok
    /\ UNCHANGED << session, _is_new_coord, frames, call, start, exit_calls, n_capture,
                    n_capture_bad, prim_failed, cancelled, result >>

\* what the primitive does once device.exit() has returned (o = "ok") or raised
AfterPrimExit(o) ==
    IF o = "ok"
    THEN /\ Goto("dispatch")
         /\ UNCHANGED result
    ELSE Finish("raise", CollabExc(o))

\* a slip that forgets the display id
PrimReset_m(conn, disp) == << 0, disp >>

\* e.g. lines 464-465: self._conn = 0; self._display_id = -1
PrimReset(conn, disp) == << 0, 0 - 1 >>

\* `except Exception as e` of a primitive: e.g. lines 463-467
PrimExcept ==
    /\ pc = "prim_except"
    /\ IF ~ IsException(exc)
       THEN /\ Finish("raise", exc)
            /\ io' = NoIO
            /\ UNCHANGED << session, exit_calls, prim_failed, cancelled >>
       ELSE \E o \in CollabOutcomes :
            /\ _conn' = PrimReset(_conn, _display_id)[1]
            /\ _display_id' = PrimReset(_conn, _display_id)[2]
            /\ io' = Collab("exit", o)
            /\ exit_calls' = exit_calls + 1
            /\ prim_failed' = prim_failed + 1
            /\ cancelled' = (cancelled \/ o = "cancel")
            /\ AfterPrimExit(o)
    /\ UNCHANGED << _is_new_coord, frames, call, start, trace, n_capture,
                    n_capture_bad, prim_ok >>

-----------------------------------------------------------------------------
(* capture_display, lines 349-414 *)

\* a slip that inverts the status test
CaptureOk_m(ret) == ret # 0

\* line 373
CaptureOk(ret) == ret = 0

\* a slip that leaves device.exit() unguarded, as the input primitives do
ExitSwallowed_m(o) == o = "ok"

\* lines 410-413: try: self.device.exit() / except Exception: pass
ExitSwallowed(o) == o = "ok" \/ IsException(CollabExc(o))

\* lines 360-387: the buffer, the native capture call, the frame or the soft reset
CapNative ==
    /\ pc = "cap_native"
    /\ \E ret \in NativeStatuses, f \in 1..NumFrames, keep \in BOOLEAN :
        LET buf == _ensure_buffer(_buffer)
        IN  /\ io' = Native("nemu_capture_display", ret)
            /\ n_capture' = n_capture + 1
            /\ n_capture_bad' = (IF ret = 0 THEN n_capture_bad ELSE n_capture_bad + 1)
            /\ IF CaptureOk(ret)
               THEN /\ _buffer' = [ buf EXCEPT !.bytes = NativeBytes(f) ]
                    /\ image' = FrameView(NativeBytes(f))
                    /\ held' = IF keep THEN FrameView(NativeBytes(f)) ELSE held
                    /\ Finish("return", "frame")
                    /\ UNCHANGED session
               ELSE /\ _buffer' = buf
                    /\ _conn' = 0
                    /\ _display_id' = 0 - 1
                    /\ Ctl("connect", script, prim, attempt, 0, "None", "None",
                           "reconnect", 0)
                    /\ UNCHANGED << image, held, result >>
    /\ UNCHANGED << _is_new_coord, call, start, trace, exit_calls, prim_ok,
                    prim_failed, cancelled >>

\* line 397, then the next iteration
CapBackoff ==
    /\ pc = "cap_backoff"
    /\ io' = NoIO
    /\ NextCaptureAttempt
    /\ UNCHANGED << session, _is_new_coord, frames, call, start, counters, result >>

\* a slip that leaves the session as the failed attempt left it
CapReset_m(conn, disp) == << conn, disp >>

\* lines 403-404: self._conn = 0; self._display_id = -1
CapReset(conn, disp) == << 0, 0 - 1 >>

\* lines 399-406
CapExcept ==
    /\ pc = "cap_except"
    /\ io' = NoIO
    /\ IF IsMowerExit(exc)
       THEN /\ Finish("raise", exc)
            /\ UNCHANGED session
       ELSE /\ _conn' = CapReset(_conn, _display_id)[1]
            /\ _display_id' = CapReset(_conn, _display_id)[2]
            /\ NextCaptureAttempt
            /\ UNCHANGED result
    /\ UNCHANGED << _is_new_coord, frames, call, start, counters >>

\* lines 408-414
CapExit ==
    /\ pc = "cap_exit"
    /\ \E o \in CollabOutcomes :
        /\ io' = Collab("exit", o)
        /\ exit_calls' = exit_calls + 1
        /\ cancelled' = (cancelled \/ o = "cancel")
        /\ IF ExitSwallowed(o)
           THEN /\ Finish("return", "blank")
                /\ image' = BlankImage
           ELSE /\ Finish("raise", CollabExc(o))
                /\ UNCHANGED image
    /\ UNCHANGED << session, _is_new_coord, _buffer, held, call, start, trace,
                    n_capture, n_capture_bad, prim_ok, prim_failed >>

-----------------------------------------------------------------------------

SessionSteps == EnsureTry \/ Connect \/ NemuConnect \/ Poll \/ PollTimeout \/ EnsureExcept

InputSteps == Dispatch \/ PrimVersion \/ EmuVersion \/ PrimNative \/ PrimExcept

CaptureSteps == CapNative \/ CapBackoff \/ CapExcept \/ CapExit

InputCalls ==
    \/ CallPrimitive \/ CallTap \/ CallSendKeyevent \/ CallBack
    \/ CallSwipe \/ CallSwipeExt \/ CallEmuVersion

CaptureCalls == CallCapture \/ ReleaseFrame \/ CallKillServer \/ CallResetWhenExit

Next == CaptureCalls \/ InputCalls \/ SessionSteps \/ InputSteps \/ CaptureSteps

Spec == Init /\ [][Next]_vars

\* the driver used for input only
NextInput == InputCalls \/ SessionSteps \/ InputSteps

SpecInput == Init /\ [][NextInput]_vars

\* the driver used for capture only
NextCapture == CaptureCalls \/ SessionSteps \/ CaptureSteps

SpecCapture == Init /\ [][NextCapture]_vars

\* capture only, where every call the driver makes returns and the clock
\* advances: a step of the driver that can be taken is eventually taken
SpecCaptureFair == SpecCapture /\ WF_vars(SessionSteps \/ CaptureSteps)

\* the driver used for capture and for the six input primitives
NextNative ==
    \/ CallCapture \/ CallPrimitive
    \/ SessionSteps
    \/ Dispatch \/ PrimVersion \/ PrimNative \/ PrimExcept
    \/ CaptureSteps

SpecNative == Init /\ [][NextNative]_vars

-----------------------------------------------------------------------------
(* BaseMixin.profession_filter, base_mixin.py lines 115-160 *)

MaxRetry == 8

open_threshold == 1700

\* line 129: if retry > 5
RetryLimit == 5

\* line 157: the blue channel of a selected label
SelectedBlue == 253

\* lines 131-141
labels == << "ALL", "PIONEER", "WARRIOR", "TANK", "SNIPER", "CASTER", "MEDIC",
             "SUPPORT", "SPECIAL" >>

\* lines 142-144: label_pos_map
label_pos_map(p) ==
    LET i == CHOOSE k \in 1..Len(labels) : labels[k] = p
    IN  << 1918, 60 + (i - 1) * 120 >>

\* line 127, 153: the button that opens and closes the filter
FilterButton == << 1860, 60 >>

\* what the caller passes: nothing, an empty name, or a label
Professions == { "None", "", "ALL", "PIONEER", "SNIPER", "SPECIAL" }

\* `if profession:` (line 118) is false for None and for ""
Falsy(p) == p \in { "None", "" }

\* self.find("confirm_blue"): << >> for None, or the x of the top-left corner
ConfirmButtons == { << >>, << 1500 >>, << 1900 >> }

\* self.get_color(pos)[2]
BlueValues == { SelectedBlue, 0 }

\* the driver is not involved in a step of profession_filter
driver == << _conn, _display_id, _is_new_coord, _buffer, pc, call, script, prim,
             attempt, er_attempt, last_exc, exc, ctx, elapsed, io, trace,
             exit_calls, n_capture, n_capture_bad, prim_ok, prim_failed,
             cancelled, result, image, held, start >>

\* lines 129-130, 154-155, 159-160: `Exception(...)` is an expression
\* statement: past the limit an exception object is made and dropped, and
\* the loop goes on
AfterTap(where, next) ==
    /\ retry < MaxRetry
    /\ last_tap' = where
    /\ retry' = retry + 1
    /\ pf_exc' = (IF retry + 1 > RetryLimit THEN "Exception" ELSE pf_exc)
    /\ pf_pc' = next
    /\ UNCHANGED pf_result

PfReturn ==
    /\ pf_pc' = "idle"
    /\ pf_result' = Result("return", "None")

\* lines 115-122, 131-149: the call, up to the first loop
CallProfessionFilter ==
    /\ pf_pc = "idle"
    /\ \E p \in Professions :
        /\ profession' = p
        /\ retry' = 0
        /\ pf_exc' = "None"
        /\ confirm_btn' = << >>
        /\ color' = 0
        /\ IF Falsy(p)
           THEN /\ pf_pc' = "close"
                /\ last_tap' = << >>
                /\ pf_result' = NoResult
           ELSE IF p = "ALL"
           THEN \* lines 145-148: two taps on the label, then return
                /\ last_tap' = label_pos_map(p)
                /\ PfReturn
           ELSE /\ pf_pc' = "open"
                /\ last_tap' = << >>
                /\ pf_result' = NoResult
    /\ UNCHANGED driver

\* lines 123-131: the loop that closes the filter
CloseFilter ==
    /\ pf_pc = "close"
    /\ \E b \in ConfirmButtons :
        /\ confirm_btn' = b
        /\ IF b # << >> /\ b[1] < open_threshold
           THEN AfterTap(FilterButton, "close")
           ELSE /\ PfReturn
                /\ UNCHANGED << retry, last_tap, pf_exc >>
    /\ UNCHANGED << driver, profession, color >>

\* lines 150-156: the loop that opens the filter, then retry = 0
OpenFilter ==
    /\ pf_pc = "open"
    /\ \E b \in ConfirmButtons :
        /\ confirm_btn' = b
        /\ IF b # << >> /\ b[1] > open_threshold
           THEN AfterTap(FilterButton, "open")
           ELSE /\ pf_pc' = "label"
                /\ retry' = 0
                /\ UNCHANGED << last_tap, pf_exc, pf_result >>
    /\ UNCHANGED << driver, profession, color >>

\* lines 157-160: the loop that selects the label
SelectLabel ==
    /\ pf_pc = "label"
    /\ \E c \in BlueValues :
        /\ color' = c
        /\ IF c # SelectedBlue
           THEN AfterTap(label_pos_map(profession), "label")
           ELSE /\ PfReturn
                /\ UNCHANGED << retry, last_tap, pf_exc >>
    /\ UNCHANGED << driver, profession, confirm_btn >>

NextFilter == CallProfessionFilter \/ CloseFilter \/ OpenFilter \/ SelectLabel

SpecFilter == Init /\ [][NextFilter]_vars

-----------------------------------------------------------------------------
(* Properties *)

PrimitiveNames == { "touch_down", "touch_up", "key_down", "key_up",
                    "finger_touch_down", "finger_touch_up" }

Ended(names) == pc = "idle" /\ call.name \in names /\ result.kind # "none"

\* C1: between two calls of the upward interface the session handle and the
\* display id are valid together or invalid together.
C1_SessionValidTogether ==
    pc = "idle" => ((_conn # 0) <=> (_display_id >= 0))

\* C2: a capture_display call whose native capture returned a non-zero
\* status on each of its 3 attempts raises nothing, has invoked device.exit()
\* exactly once and returns an all-zero image of shape (1080, 1920, 3).
C2_ThreeBadCapturesDegrade ==
    (Ended({ "capture_display" }) /\ n_capture_bad = 3)
        => /\ result = Result("return", "blank")
           /\ exit_calls = 1
           /\ image.shape = << 1080, 1920, 3 >>
           /\ \A p \in SamplePixels : image.pix[p] = 0

C2_Witness ==
    /\ Ended({ "capture_display" })
    /\ n_capture = 3
    /\ n_capture_bad = 3
    /\ exit_calls = 1
    /\ io = Collab("exit", "cancel")

\* C3 as stated: in a capture_display call in which no native capture call
\* returned a non-zero status, device.exit() is not invoked.
C3_NoExitIfCapturesOk ==
    (call.name = "capture_display" /\ n_capture_bad = 0) => exit_calls = 0

\* C3 as amended: in a capture_display call that issues a native capture
\* call, none of which returns a non-zero status, device.exit() is not
\* invoked and the call returns the frame.
C3_NoExitAfterGoodCapture ==
    (call.name = "capture_display" /\ n_capture > 0 /\ n_capture_bad = 0)
        => /\ exit_calls = 0
           /\ pc = "idle"
           /\ result = Result("return", "frame")

C3_Witness ==
    /\ Ended({ "capture_display" })
    /\ start[1] = 0
    /\ n_capture = 1
    /\ n_capture_bad = 0
    /\ exit_calls = 0

\* C4: the pixel content of a frame the caller still holds is what it was
\* when capture_display returned it.
C4_HeldFrameStable ==
    held # NoImage => FrameView(_buffer.bytes) = held

\* C5: a swipe_ext call with n >= 2 points and n - 1 durations, all native
\* calls succeeding, returns after one continuous gesture: touch-downs
\* starting at the first point, then exactly one touch-up, at the end.
C5_SwipeExtOneGesture ==
    (/\ Ended({ "swipe_ext" })
     /\ Len(call.pts) >= 2
     /\ Len(call.durs) = Len(call.pts) - 1
     /\ prim_failed = 0)
        => /\ result.kind = "return"
           /\ Len(trace) >= 2
           /\ trace[1].fn = "touch_down"
           /\ trace[1].args = _map_xy(_is_new_coord, call.pts[1][1], call.pts[1][2])
           /\ trace[Len(trace)].fn = "touch_up"
           /\ \A i \in 1..(Len(trace) - 1) : trace[i].fn = "touch_down"

\* C6: swipe_ext with fewer than 2 points, or with len(durations) different
\* from len(points) - 1, ends in the step that starts it, with ValueError:
\* no native call, no management query, no device.exit(), and _conn,
\* _display_id and the coordinate flag as they were.
C6_SwipeExtRejectsBadArgs ==
    [][ (/\ pc = "idle"
         /\ call'.name = "swipe_ext"
         /\ (Len(call'.pts) < 2 \/ Len(call'.durs) # Len(call'.pts) - 1))
        => /\ pc' = "idle"
           /\ result' = Result("raise", "ValueError")
           /\ io' = NoIO
           /\ trace' = << >>
           /\ exit_calls' = 0
           /\ _conn' = _conn
           /\ _display_id' = _display_id
           /\ _is_new_coord' = _is_new_coord ]_vars

C6_Witness ==
    /\ Ended({ "swipe_ext" })
    /\ Len(call.pts) = 2
    /\ Len(call.durs) = 2
    /\ result = Result("raise", "ValueError")
    /\ _conn # 0

\* C7: an input primitive that fails leaves the session invalidated, has
\* signalled the owner through device.exit() and raises to its caller.
C7_PrimitiveFailureRaises ==
    (Ended(PrimitiveNames) /\ prim_failed > 0)
        => /\ _conn = 0
           /\ _display_id = 0 - 1
           /\ exit_calls = 1
           /\ result.kind = "raise"

\* C8: a tap, send_keyevent, back or swipe call in which every primitive
\* fails has invoked device.exit() exactly once.
C8_ExitOncePerEpisode ==
    (Ended({ "tap", "send_keyevent", "back", "swipe" }) /\ prim_ok = 0 /\ prim_failed > 0)
        => exit_calls = 1

\* C9: a call during which MowerExit was raised ends by raising MowerExit
\* to its caller.
C9_CancellationPropagates ==
    (pc = "idle" /\ cancelled) => result = Result("raise", "MowerExit")

\* C10: when the "info" query classifies the emulator as anything other than
\* running, connect() raises without a native call and leaves _conn and
\* _display_id as they were.
C10_ConnectRefusesUnlessRunning ==
    [][ (/\ pc = "connect"
         /\ io'.kind = "manager"
         /\ io'.out \in { "ok", "empty" }
         /\ _emu_state(io'.info) # "running")
        => /\ pc' # "nemu_connect"
           /\ _conn' = _conn
           /\ _display_id' = _display_id
           /\ (ctx = "ensure" => (pc' = "er_except" /\ exc' = "Exception"))
           /\ (ctx = "reconnect" => pc' = "cap_backoff") ]_vars

C10_Witness ==
    /\ pc = "er_except"
    /\ exc = "Exception"
    /\ io.kind = "manager"
    /\ io.name = "info"
    /\ io.out = "ok"
    /\ _emu_state(io.info) = "launching"
    /\ _conn = 0

\* C11: the native touch-down that follows a version query reporting a
\* triple v carries (x, y) if v >= (4, 1, 21) in lexicographic order, and
\* (1080 - y, x) otherwise.
C11_MappingFollowsVersion ==
    [][ (/\ pc = "prim_native"
         /\ io.kind = "manager"
         /\ io.name = "setting"
         /\ Len(io.version) >= 3
         /\ Len(trace') = Len(trace) + 1)
        => LET v      == io.version
               isNew  == \/ v[1] > 4
                         \/ v[1] = 4 /\ v[2] > 1
                         \/ v[1] = 4 /\ v[2] = 1 /\ v[3] >= 21
               mapped == IF isNew THEN << prim.x, prim.y >>
                                  ELSE << 1080 - prim.y, prim.x >>
               args   == trace'[Len(trace')].args
           IN  /\ prim.op \in { "touch_down", "finger_touch_down" }
               /\ prim.op = "touch_down" => args = mapped
               /\ prim.op = "finger_touch_down" => args = << prim.finger >> \o mapped ]_vars

\* a 4.1.20 emulator was queried and the touch-down went out rotated
C11_Witness ==
    /\ start[3] = "None"
    /\ _is_new_coord = "False"
    /\ io = Native("touch_down", 0)
    /\ Len(trace) = 1
    /\ trace[1].args = << 880, 100 >>

\* C12: a tap(x, y) call that starts on a ready session, whose native calls
\* all return 0 and whose coordinate convention is resolved, has issued
\* exactly one touch_down at the mapped coordinates and then exactly one
\* touch_up, both with the handle and display id of the session; under the
\* legacy convention tap(100, 200) issues touch_down(handle, display, 880, 100).
C12_TapDownThenUp ==
    (/\ Ended({ "tap" })
     /\ start[1] # 0
     /\ start[2] >= 0
     /\ \A i \in 1..Len(trace) : trace[i].rc = 0
     /\ _is_new_coord # "None")
        => LET x == call.pts[1][1]
               y == call.pts[1][2]
           IN  /\ Len(trace) = 2
               /\ trace[1].fn = "touch_down"
               /\ trace[1].args = (IF _is_new_coord = "True" THEN << x, y >>
                                                             ELSE << 1080 - y, x >>)
               /\ trace[2].fn = "touch_up"
               /\ \A i \in 1..2 : /\ trace[i].conn = start[1]
                                   /\ trace[i].disp = start[2]
                                   /\ trace[i].conn = _conn
                                   /\ trace[i].disp = _display_id
               /\ (_is_new_coord = "False" /\ x = 100 /\ y = 200)
                    => trace[1] = [ fn |-> "touch_down", conn |-> _conn,
                                    disp |-> _display_id, args |-> << 880, 100 >>,
                                    rc |-> 0 ]
               /\ result = Result("return", "None")

C12_Witness ==
    /\ Ended({ "tap" })
    /\ start = << 1, 0, "False" >>
    /\ call.pts = << << 100, 200 >> >>
    /\ Len(trace) = 2
    /\ trace[1].args = << 880, 100 >>
    /\ trace[2].rc = 0

\* C13: once _is_new_coord is no longer None, no step changes it.
C13_ConventionResolvedOnce ==
    [][ _is_new_coord # "None" => _is_new_coord' = _is_new_coord ]_vars

\* the convention was resolved as new, the session has been invalidated since
\* and a later version query reported 4.1.20
C13_Witness ==
    /\ Ended({ "_emu_version" })
    /\ start = << 0, 0 - 1, "True" >>
    /\ io = Setting("ok", << 4, 1, 20 >>)
    /\ result = Result("return", "parts")
    /\ _is_new_coord = "True"

\* C14: the image a successful capture returns has shape (1080, 1920, 3)
\* and its pixel (r, c, k), k in 0..2, is byte ((1079 - r) * 1920 + c) * 4 + k
\* of the buffer the native call filled.
C14_FrameIsFlippedRGB ==
    (Ended({ "capture_display" }) /\ result = Result("return", "frame"))
        => /\ image.shape = << 1080, 1920, 3 >>
           /\ io = Native("nemu_capture_display", 0)
           /\ \E f \in 1..NumFrames : _buffer.bytes = NativeBytes(f)
           /\ \A r \in SampleRows, c \in SampleCols, k \in 0..2 :
                image.pix[<< r, c, k >>]
                    = _buffer.bytes[((1080 - 1 - r) * 1920 + c) * 4 + k]

\* the top-left pixel of the returned image is the first pixel of the last
\* row of the native buffer
C14_Witness ==
    /\ Ended({ "capture_display" })
    /\ result = Result("return", "frame")
    /\ _buffer.bytes = NativeBytes(2)
    /\ image.pix[<< 0, 0, 0 >>] = NativeBytes(2)[1079 * 1920 * 4]
    /\ image.pix[<< 0, 0, 0 >>] # NativeBytes(2)[0]

\* C15: a capture_display call makes at most 3 native capture calls.  The
\* step that receives a non-zero status sets _conn = 0 and _display_id = -1
\* and enters the reconnect; the reconnect is one pass connect ->
\* nemu_connect -> polling that never raises to the attempt and always ends
\* in the back-off; the next attempt starts only from the back-off (or from
\* the except clause of an attempt that raised).
C15_CaptureRetryDiscipline ==
    [][ /\ n_capture' <= 3
        /\ (pc = "cap_native" /\ io'.rc # 0)
             => /\ _conn' = 0
                /\ _display_id' = 0 - 1
                /\ pc' = "connect"
                /\ ctx' = "reconnect"
        /\ ctx = "reconnect"
             => /\ attempt' = attempt
                /\ n_capture' = n_capture
                /\ exc' = "None"
                /\ pc = "connect" => pc' \in { "nemu_connect", "cap_backoff" }
                /\ pc = "nemu_connect" => pc' \in { "poll", "cap_backoff" }
                /\ pc = "poll" => pc' \in { "poll", "cap_backoff" }
                /\ pc' = "cap_backoff" \/ ctx' = "reconnect"
        /\ pc = "cap_backoff"
             => IF attempt < 3
                THEN pc' = "er_try" /\ attempt' = attempt + 1
                ELSE pc' = "cap_exit" /\ attempt' = attempt
        /\ (pc # "idle" /\ attempt' = attempt + 1)
             => pc \in { "cap_backoff", "cap_except" } ]_vars

\* the second capture failed, the reconnect got a handle but its polling
\* timed out; the call is in its back-off
C15_Witness ==
    /\ pc = "cap_backoff"
    /\ attempt = 2
    /\ n_capture = 2
    /\ n_capture_bad = 2
    /\ _conn # 0
    /\ _display_id < 0

\* C16: get_display_id makes a native poll only while fewer than 20 seconds
\* have elapsed; a poll stores its result in _display_id; after a negative
\* result at least 1 second passes before the loop tests the budget again;
\* a non-negative result ends the function at once; when the budget is
\* spent the function raises RuntimeError, _display_id still negative.
C16_DisplayPolling ==
    [][ pc = "poll"
        => IF io'.kind = "native"
           THEN /\ elapsed < 20
                /\ io'.name = "nemu_get_display_id"
                /\ _display_id' = io'.rc
                /\ io'.rc >= 0 => /\ pc' \notin { "poll", "er_except", "cap_except" }
                                  /\ exc' = "None"
                /\ io'.rc < 0
                     => /\ pc' = "poll"
                        /\ \E d \in PollDurations :
                             elapsed' = (IF elapsed + d + 1 < 20 THEN elapsed + d + 1
                                                                 ELSE 20)
           ELSE /\ elapsed >= 20
                /\ _display_id' = _display_id
                /\ _display_id < 0
                /\ ctx = "ensure" => pc' = "er_except" /\ exc' = "RuntimeError"
                /\ ctx = "reconnect" => pc' = "cap_backoff" ]_vars

\* the budget ran out inside _ensure_ready after several negative polls
C16_Witness ==
    /\ pc = "er_except"
    /\ exc = "RuntimeError"
    /\ last_exc = "None"
    /\ _conn # 0
    /\ _display_id < 0

\* C17: a swipe(x0, y0, x1, y1, duration, steps) call with steps >= 1 that
\* starts on a ready session and in which no primitive fails (every native
\* call returns 0, a version query answers) has issued steps + 1 touch-downs and
\* then one touch-up: the first touch-down at (x0, y0), the one after it
\* number i at the integer part of (x0, y0) + ((x1, y1) - (x0, y0)) * i / steps,
\* the last at (x1, y1).
C17_SwipeInterpolates ==
    (/\ Ended({ "swipe" })
     /\ call.steps >= 1
     /\ call.fall
     /\ call.lift
     /\ start[1] # 0
     /\ start[2] >= 0
     /\ prim_failed = 0)
        => LET n  == call.steps
               x0 == call.pts[1][1]
               y0 == call.pts[1][2]
               x1 == call.pts[2][1]
               y1 == call.pts[2][2]
               \* the logical point a native touch-down was issued for
               Logical(a) == IF _is_new_coord = "True" THEN a
                                                       ELSE << a[2], 1080 - a[1] >>
               IntPart(t, a, b, i) == /\ t * n <= a * n + (b - a) * i
                                      /\ a * n + (b - a) * i < (t + 1) * n
           IN  /\ result = Result("return", "None")
               /\ Len(trace) = n + 2
               /\ \A i \in 1..(n + 1) : trace[i].fn = "touch_down"
               /\ trace[n + 2].fn = "touch_up"
               /\ Logical(trace[1].args) = << x0, y0 >>
               /\ \A i \in 1..n :
                    /\ IntPart(Logical(trace[i + 1].args)[1], x0, x1, i)
                    /\ IntPart(Logical(trace[i + 1].args)[2], y0, y1, i)
               /\ Logical(trace[n + 1].args) = << x1, y1 >>

\* swipe(100, 200, 301, 401, steps=2) under the legacy convention: the
\* midpoint (200, 300) goes out as (780, 200)
C17_Witness ==
    /\ Ended({ "swipe" })
    /\ call.steps = 2
    /\ call.fall
    /\ call.lift
    /\ start[1] # 0
    /\ start[2] >= 0
    /\ prim_failed = 0
    /\ _is_new_coord = "False"
    /\ Len(trace) = 4
    /\ trace[2].args = << 780, 200 >>
    /\ trace[4].rc = 0

\* C18: the step that makes a management query which cannot be spawned,
\* exits non-zero, or answers with empty or non-JSON output, raises an error
\* in the operation that needed the query.
C18_QueryFailureReported ==
    (io.kind = "manager" /\ io.out # "ok")
        => (exc # "None" \/ result.kind = "raise")

\* C19: the driver never holds more than one frame buffer: the buffer it
\* holds is the only one it has ever allocated, whatever the captures did
\* and whatever frames the caller keeps.
C19_BuffersBounded ==
    /\ _buffer.made <= 1
    /\ _buffer.alloc <=> _buffer.made = 1

\* a capture succeeded while the caller still held an earlier frame
C19_Witness ==
    /\ Ended({ "capture_display" })
    /\ result = Result("return", "frame")
    /\ held # NoImage
    /\ image # held
    /\ _buffer.made = 1

\* C20: when an input primitive ends (returns, or raises out of
\* device.exit()) after its native call returned a non-zero status, _conn is
\* 0 and _display_id is -1.
C20_NativeFailureDisconnects ==
    (/\ pc \in { "dispatch", "idle" }
     /\ io.kind = "collab"
     /\ io.name = "exit"
     /\ Len(trace) > 0
     /\ trace[Len(trace)].rc # 0)
        => /\ _conn = 0
           /\ _display_id = 0 - 1

\* key_down on a ready session, the native call returned 1
C20_Witness ==
    /\ Ended({ "key_down" })
    /\ start[1] # 0
    /\ start[2] >= 0
    /\ Len(trace) = 1
    /\ trace[1].rc = 1
    /\ trace[1].conn # 0
    /\ trace[1].disp >= 0
    /\ _conn = 0

\* C21: kill_server() returns with the session torn down and no frame
\* buffer left; reset_when_exit() returns with _display_id = -1 and _conn,
\* the coordinate flag and the buffer as they were.
C21_TeardownOperations ==
    /\ Ended({ "kill_server" })
         => /\ result.kind = "return"
            /\ _conn = 0
            /\ _display_id = 0 - 1
            /\ ~ _buffer.alloc
    /\ Ended({ "reset_when_exit" })
         => /\ result.kind = "return"
            /\ _display_id = 0 - 1
            /\ _conn = start[1]
            /\ _is_new_coord = start[3]

\* C22: a send_keyevent(code) call that starts on a ready session and in
\* which no primitive fails has issued exactly one native key_down(code) and
\* then exactly one native key_up(code); back() issues the same pair with
\* keycode 1.
C22_KeyDownThenUp ==
    (/\ Ended({ "send_keyevent", "back" })
     /\ start[1] # 0
     /\ start[2] >= 0
     /\ prim_failed = 0)
        => LET code == IF call.name = "back" THEN 1 ELSE call.code
           IN  /\ result = Result("return", "None")
               /\ Len(trace) = 2
               /\ trace[1].fn = "key_down"
               /\ trace[1].args = << code >>
               /\ trace[2].fn = "key_up"
               /\ trace[2].args = << code >>
               /\ \A i \in 1..2 : /\ trace[i].rc = 0
                                   /\ trace[i].conn = start[1]
                                   /\ trace[i].disp = start[2]

C22_Witness ==
    /\ Ended({ "back" })
    /\ start[1] # 0
    /\ start[2] >= 0
    /\ prim_failed = 0
    /\ Len(trace) = 2
    /\ trace[2].fn = "key_up"
    /\ trace[2].args = << 1 >>

\* C23: the step in which nemu_connect returns 0 leaves _conn = 0 and ends
\* connect() with an Exception (raised to retry_wrapper inside
\* _ensure_ready, swallowed by capture_display's reconnect) without going on
\* to get_display_id; and no other native call is ever made while _conn = 0.
C23_ConnectRefused ==
    [][ /\ (pc = "nemu_connect" /\ io'.rc = 0)
             => /\ io'.name = "nemu_connect"
                /\ _conn' = 0
                /\ pc' # "poll"
                /\ ctx = "ensure" => pc' = "er_except" /\ exc' = "Exception"
                /\ ctx = "reconnect" => pc' = "cap_backoff"
        /\ (io'.kind = "native" /\ io'.name # "nemu_connect") => _conn # 0 ]_vars

\* the emulator is running, nemu_connect returned 0 inside _ensure_ready
C23_Witness ==
    /\ pc = "er_except"
    /\ exc = "Exception"
    /\ io = Native("nemu_connect", 0)
    /\ _conn = 0

\* C24: when _ensure_ready starts a retry (its second or third attempt),
\* the session has been invalidated: _conn = 0 and _display_id = -1.
C24_RetryStartsInvalidated ==
    (pc = "er_try" /\ er_attempt > 1)
        => /\ _conn = 0
           /\ _display_id = 0 - 1

\* C25: the first poll of a retry that follows a display-acquisition timeout
\* comes right after a new nemu_connect call.
C25_TimeoutRetriedByReconnect ==
    (/\ pc = "poll"
     /\ ctx = "ensure"
     /\ elapsed = 0
     /\ last_exc = "RuntimeError")
        => /\ io.kind = "native"
           /\ io.name = "nemu_connect"

\* C26: an input primitive signals device.exit() only once its native call
\* has been attempted 3 times with a non-zero status each time, never after
\* a single failing status.
C26_NativeInputRetried ==
    (/\ call.name \in PrimitiveNames
     /\ exit_calls > 0
     /\ Len(trace) > 0
     /\ trace[Len(trace)].rc # 0)
        => /\ Len(trace) = 3
           /\ \A i \in 1..3 : trace[i].rc # 0

\* C27: retry_wrapper(3) makes at most 3 attempts per call; an attempt that
\* succeeds ends the call of the wrapped function with no further attempt;
\* a failed attempt is followed by another one only while fewer than 3 were
\* made, and the third failure with a non-cancellation error hands that very
\* error to the immediate caller's except clause.
C27_AtMostThreeAttempts ==
    [][ /\ er_attempt' \in 0..3
        /\ (pc = "er_except" /\ pc' = "er_try")
              => /\ er_attempt < 3
                 /\ er_attempt' = er_attempt + 1
        /\ (pc = "er_except" /\ er_attempt = 3 /\ exc # "MowerExit")
              => /\ pc' = (IF call.name = "capture_display"
                           THEN "cap_except" ELSE "prim_except")
                 /\ exc' = exc
        /\ (/\ pc \in { "er_try", "nemu_connect", "poll" }
            /\ pc' \in { "cap_native", "prim_version", "prim_native" })
              => /\ er_attempt' = 0
                 /\ exc' = "None" ]_vars

\* the third attempt timed out and the caller's except clause has the error
C27_Witness ==
    /\ pc = "cap_except"
    /\ exc = "RuntimeError"
    /\ io.kind = "collab"
    /\ io.name = "check_current_focus"
    /\ attempt = 1

\* C28: a capture_display call in which the session could not be made ready
\* on any attempt (no native capture call was issued) does not raise: it
\* returns the all-zero (H, W, 3) image, has called device.exit() exactly once
\* and leaves _conn = 0 and _display_id = -1, whatever device.exit() did.
C28_NeverReadyDegrades ==
    (/\ pc = "idle"
     /\ call.name = "capture_display"
     /\ n_capture = 0)
        => /\ result = Result("return", "blank")
           /\ image.shape = << _H, _W, 3 >>
           /\ \A p \in DOMAIN image.pix : image.pix[p] = 0
           /\ exit_calls = 1
           /\ _conn = 0
           /\ _display_id = 0 - 1

\* the session never became ready and device.exit() itself raised
C28_Witness ==
    /\ pc = "idle"
    /\ call.name = "capture_display"
    /\ n_capture = 0
    /\ result = Result("return", "blank")
    /\ io.name = "exit"
    /\ io.out = "error"

\* C29: restart_simulator has just been invoked only where another attempt of
\* _ensure_ready follows (the second or the third), and never for a
\* display-acquisition timeout: so at most 2 restarts per call.
C29_RestartOnlyBeforeRetry ==
    (io.kind = "collab" /\ io.name = "restart_simulator")
        => /\ pc = "er_try"
           /\ er_attempt \in 2..3
           /\ last_exc # "RuntimeError"

\* C30: the native capture call and every native input call are issued with
\* _conn # 0 and _display_id >= 0, and every nemu_get_display_id call is
\* issued with _conn # 0.
C30_NativeCallsOnReadySession ==
    /\ (pc \in { "cap_native", "prim_native" })
          => /\ _conn # 0
             /\ _display_id >= 0
    /\ \A i \in 1..Len(trace) :
          /\ trace[i].conn # 0
          /\ trace[i].disp >= 0
    /\ (pc = "poll" /\ elapsed < 20) => _conn # 0

\* a capture call is about to be issued on a session that an earlier failure
\* had torn down and this call has rebuilt
C30_Witness ==
    /\ pc = "cap_native"
    /\ attempt = 2
    /\ _conn # 0
    /\ _display_id >= 0

\* C31: every capture_display call comes to an end, within at most 3 outer
\* attempts, each with at most 3 attempts of _ensure_ready, each polling the
\* display id for at most 20 seconds.
C31_CaptureTerminates ==
    /\ [](call.name = "capture_display"
            => /\ attempt \in 0..3
               /\ er_attempt \in 0..3
               /\ elapsed \in 0..20)
    /\ (call.name = "capture_display" /\ pc # "idle")
          ~> (pc = "idle" /\ result.val \in { "frame", "blank", "MowerExit" })

\* the last poll budget of the last attempt of the last outer attempt is spent
C31_Witness ==
    /\ call.name = "capture_display"
    /\ pc = "poll"
    /\ attempt = 3
    /\ er_attempt = 3
    /\ elapsed = 20

\* C32: a swipe with fall=True and lift=True whose native calls all return 0
\* and which issued a native touch-down ends, whether it returns or raises,
\* with a native touch-up as its last native call.
C32_SwipeLiftsFinger ==
    (/\ Ended({ "swipe" })
     /\ call.fall
     /\ call.lift
     /\ prim_failed = 0
     /\ \A i \in 1..Len(trace) : trace[i].rc = 0
     /\ \E i \in 1..Len(trace) : trace[i].fn = "touch_down")
        => trace[Len(trace)].fn = "touch_up"

\* C33: in each loop of profession_filter at most 6 taps are made, and the
\* sixth unsuccessful one ends the call with an error.
C33_FilterGivesUp ==
    /\ retry <= 6
    /\ (retry = 6) => /\ pf_pc = "idle"
                      /\ pf_result = Result("raise", "Exception")

=============================================================================
